---- MODULE Spec2Model ----
(***************************************************************************)
(* The stepper of get_polymer_smiles.py: main(pids) walks the input list,  *)
(* passes over identifiers whose pointer file exists, fetches the others   *)
(* with the captchaId observed in the browser, and persists each decoded   *)
(* record (output file, index line, pointer file).                         *)
(*                                                                         *)
(* Strings are sequences of one-character strings, so that strip(), the    *)
(* SAFE_NAME_RE substitution, lower() and the "json" substring test are    *)
(* computed character by character.  OUTDIR is one name space: output      *)
(* files, pointer files and temporary files are all keys of `files`.       *)
(***************************************************************************)
EXTENDS Integers, Sequences, FiniteSets, TLC

(* ------------------------------ bounds -------------------------------- *)
\* longest input list
MaxPids == 2
\* POST requests over all runs (see PostCap)
MaxPosts == 2
\* runs of main() (a run after the first is a restart or a second invocation)
MaxRuns == 2
\* browser requests waiting for dispatch to on_request
MaxInbox == 1

(* ------------------------------ strings ------------------------------- *)
UpperChars == <<"A","B","C","D","E","F","G","H","I","J","K","L","M",
                "N","O","P","Q","R","S","T","U","V","W","X","Y","Z">>
LowerChars == <<"a","b","c","d","e","f","g","h","i","j","k","l","m",
                "n","o","p","q","r","s","t","u","v","w","x","y","z">>
DigitChars == {"0","1","2","3","4","5","6","7","8","9"}

\* str.lower(), one character
LowerChar(c) ==
    IF \E i \in 1..26 : UpperChars[i] = c
    THEN LowerChars[CHOOSE i \in 1..26 : UpperChars[i] = c]
    ELSE c

\* str.lower()
Lower(s) == [i \in 1..Len(s) |-> LowerChar(s[i])]

\* the `in` operator on strings: sub occurs in s
Contains(s, sub) ==
    \E i \in 0..(Len(s) - Len(sub)) :
        \A j \in 1..Len(sub) : s[i + j] = sub[j]

EndsWith(s, suf) ==
    /\ Len(s) >= Len(suf)
    /\ SubSeq(s, Len(s) - Len(suf) + 1, Len(s)) = suf

\* the characters SAFE_NAME_RE leaves alone: [A-Za-z0-9_.-]
SAFE_NAME_RE ==
    {UpperChars[i] : i \in 1..26} \cup {LowerChars[i] : i \in 1..26}
        \cup DigitChars \cup {"_", ".", "-"}

Whitespace == {" ", "\t", "\n", "\r"}

\* str.strip()
RECURSIVE LStrip(_)
LStrip(s) == IF s # <<>> /\ Head(s) \in Whitespace THEN LStrip(Tail(s)) ELSE s
RECURSIVE RStrip(_)
RStrip(s) ==
    IF s # <<>> /\ s[Len(s)] \in Whitespace
    THEN RStrip(SubSeq(s, 1, Len(s) - 1)) ELSE s
Strip(s) == RStrip(LStrip(s))

\* SAFE_NAME_RE.sub("_", s): every maximal run of other characters becomes "_"
RECURSIVE SubUnsafe(_, _)
SubUnsafe(s, inRun) ==
    IF s = <<>> THEN <<>>
    ELSE IF Head(s) \in SAFE_NAME_RE THEN <<Head(s)>> \o SubUnsafe(Tail(s), FALSE)
    ELSE IF inRun THEN SubUnsafe(Tail(s), TRUE)
    ELSE <<"_">> \o SubUnsafe(Tail(s), TRUE)

\* stem[:200]
StemMax == 200

Unknown == <<"u","n","k","n","o","w","n">>

safe_filename(stem) ==
    LET t == SubUnsafe(Strip(stem), FALSE)
    IN  IF t # <<>> THEN SubSeq(t, 1, IF Len(t) < StemMax THEN Len(t) ELSE StemMax)
        ELSE Unknown

DotJson == <<".","j","s","o","n">>
DotPointerJson == <<".","p","o","i","n","t","e","r">> \o DotJson
DotTmp == <<".","t","m","p">>
Sep == <<"_","_">>

(* --------------------------- Python values ---------------------------- *)
\* a JSON value as Python sees it: None, a str, or a number
None == [t |-> "none", v |-> <<>>]
Str(s) == [t |-> "str", v |-> s]
Num(s) == [t |-> "num", v |-> s]

\* bool(x)
Truthy(x) ==
    CASE x.t = "str" -> x.v # <<>>
      [] x.t = "num" -> x.v # <<"0">>
      [] OTHER -> FALSE

\* the result of a call that may raise
Return(x) == [ok |-> TRUE, val |-> x, exc |-> "-"]
Raise(e) == [ok |-> FALSE, val |-> None, exc |-> e]

(* ----------------------------- remote API ----------------------------- *)
API_URL == "https://polymer.nims.go.jp/PoLyInfo/api/6627766"
PAGE_URL == "https://polymer.nims.go.jp/PoLyInfo/search"

\* the record the API holds for an identifier; polymer_uuid ties it to the
\* identifier it was fetched for
Record(pid, polymer_id) == [polymer_id |-> polymer_id, polymer_uuid |-> Str(pid)]

\* base64.b64encode(json.dumps(rec).encode("utf-8")): the three layers of the
\* transport encoding, each of which the decoder undoes and can reject; a
\* layer flagged FALSE is one the matching decoding step raises on
B64Json(rec) == [b64 |-> TRUE, utf8 |-> TRUE, json |-> TRUE, val |-> rec]

decode_b64_json(b64) ==
    IF ~b64.b64 THEN Raise("binascii.Error")
    ELSE IF ~b64.utf8 THEN Raise("UnicodeDecodeError")
    ELSE IF ~b64.json THEN Raise("JSONDecodeError")
    ELSE Return(b64.val)

CtJson == <<"a","p","p","l","i","c","a","t","i","o","n","/","j","s","o","n">>
CtJsonUpper == <<"A","p","p","l","i","c","a","t","i","o","n","/","J","S","O","N">>
CtHtml == <<"t","e","x","t","/","h","t","m","l">>

\* looks_blocked without the content-type test
looks_blocked_statusOnly(status, content_type) == status # 200

looks_blocked(status, content_type) ==
    IF status # 200 THEN TRUE
    ELSE IF ~Contains(Lower(content_type), <<"j","s","o","n">>) THEN TRUE
    ELSE FALSE

(* ------------------------------ inputs -------------------------------- *)
PidA == <<"a">>
PidSlash == <<"b","/">>
PidUnder == <<"b","_">>
\* identifiers an input list is made of; the last two share a file-name stem
PidSet == {PidA, PidSlash, PidUnder}

\* the input lists of main(pids): stripped, non-empty lines, repeats allowed
PidLists == UNION {[1..n -> PidSet] : n \in 1..MaxPids}

\* polymer_id values a decoded record can carry
PolymerIds ==
    { None,
      Str(<<"P">>),
      Str(PidA \o <<".","p","o","i","n","t","e","r">>),
      Num(<<"7">>) }

\* the body of a response: whether it parses as a JSON object, the keys it
\* has, and their values
Body(isjson, keys, result, payload) ==
    [isjson |-> isjson, keys |-> keys, result |-> result, payload |-> payload]

Response(status, ct, body) == [status |-> status, ct |-> ct, body |-> body]

HealthyBody(rec) == Body(TRUE, {"result", "json"}, TRUE, B64Json(rec))

\* what the API may answer to a POST for pid
Responses(pid) ==
    LET rec == Record(pid, Str(<<"P">>))
        ok == HealthyBody(rec)
    IN  {Response(200, CtJson, HealthyBody(Record(pid, p))) : p \in PolymerIds}
        \cup
        { Response(200, CtJsonUpper, ok),
          Response(403, CtJson, ok),
          Response(200, CtHtml, ok),
          Response(200, <<>>, ok),
          Response(200, CtJson, Body(FALSE, {}, FALSE, B64Json(rec))),
          Response(200, CtJson, Body(TRUE, {"result", "json"}, FALSE, B64Json(rec))),
          Response(200, CtJson, Body(TRUE, {"json"}, FALSE, B64Json(rec))),
          Response(200, CtJson,
                   Body(TRUE, {"result", "json"}, TRUE, [B64Json(rec) EXCEPT !.b64 = FALSE])),
          Response(200, CtJson,
                   Body(TRUE, {"result", "json"}, TRUE, [B64Json(rec) EXCEPT !.json = FALSE])) }

\* captchaId values the site hands out
Tokens == {"t1", "t2"}
NoToken == "None"

\* requests the browser makes while the operator uses the page; headers are
\* (lower-cased name, value) pairs
BrowserRequests ==
    {[url |-> API_URL, method |-> "POST", headers |-> {<<"captchaid", t>>}] : t \in Tokens}
    \cup
    { [url |-> API_URL, method |-> "POST", headers |-> {}],
      [url |-> API_URL, method |-> "GET", headers |-> {<<"captchaid", "t1">>}],
      [url |-> PAGE_URL, method |-> "POST", headers |-> {<<"captchaid", "t1">>}] }

(* ------------------------------- state -------------------------------- *)
VARIABLES
    pids,        \* the input list of main(pids)
    files,       \* OUTDIR: file name -> [complete, obj]
    index,       \* index.jsonl, one entry per line
    errors,      \* errors.tsv, one line per entry
    pc,          \* where main() stands
    idx,         \* the queue index (0-based, as in the code)
    captcha_id,  \* the token slot
    inbox,       \* browser requests not yet dispatched to on_request
    sent,        \* the captchaId header of the POST in flight
    resp,        \* the response (or exception) the POST came back with
    decoded,     \* local: the decoded record being saved
    out_path,    \* local: the output file name chosen for it
    run,         \* number of the current run of main()
    posts,       \* POST requests issued over all runs
    diedAt,      \* pc at which the process was killed
    startFiles,  \* history: names present in OUTDIR when the run started
    passed,      \* history: positions passed over by the pointer check, this run
    prompted,    \* history: positions the operator was prompted for, this run
    outWrites,   \* history: (identifier, output name) of every output written
    saved,       \* history: every completed save
    pre          \* history: OUTDIR, index length and idx when a save began

persistent == <<files, index, errors>>
locals == <<sent, resp, decoded, out_path>>
history == <<startFiles, passed, prompted, outWrites, saved, pre>>
vars == <<pids, files, index, errors, pc, idx, captcha_id, inbox, sent, resp,
          decoded, out_path, run, posts, diedAt, startFiles, passed,
          prompted, outWrites, saved, pre>>

NoResp == [kind |-> "none"]
NoPre == [names |-> {}, nindex |-> 0, idx |-> 0]
NoPath == <<>>

(* ----------------------------- file system ---------------------------- *)
\* Path.exists()
Exists(fs, path) == path \in DOMAIN fs

\* json.dumps(obj) as file content; a write that is cut short leaves a prefix
Text(obj) == [complete |-> TRUE, obj |-> obj]
Truncated(obj) == [complete |-> FALSE, obj |-> obj]

\* Path.write_text(): creates or truncates the file, then writes
write_text(fs, path, content) ==
    [n \in DOMAIN fs \cup {path} |-> IF n = path THEN content ELSE fs[n]]

\* Path.replace(): rename src onto dst
replace(fs, src, dst) ==
    [n \in (DOMAIN fs \ {src}) \cup {dst} |-> IF n = dst THEN fs[src] ELSE fs[n]]

\* a writer that writes in place, with no temporary file
TmpOf_inPlace(path) == path

\* path.with_suffix(path.suffix + ".tmp")
TmpOf(path) == path \o DotTmp

\* OUTDIR / f"{safe_filename(pid_uuid)}.pointer.json"
PointerPath(pid) == safe_filename(pid) \o DotPointerJson

\* a resumability check that looks for the output file named after the
\* identifier instead of the pointer file
PointerExists_outputFile(fs, pid) == Exists(fs, safe_filename(pid) \o DotJson)

\* pid_uuid_path.exists()
PointerExists(fs, pid) == Exists(fs, PointerPath(pid))

Pointer(pid, filename) == [pid_uuid |-> pid, filename |-> filename]

IsTmp(name) == EndsWith(name, DotTmp)
IsRecord(obj) == "polymer_uuid" \in DOMAIN obj
IsPointer(obj) == "filename" \in DOMAIN obj

(* -------------------------------- Init -------------------------------- *)
\* main() has logged in, registered on_request and truncated errors.tsv
Init ==
    /\ pids \in PidLists
    /\ files = <<>>
    /\ index = <<>>
    /\ errors = <<>>
    /\ pc = "loop"
    /\ idx = 0
    /\ captcha_id = NoToken
    /\ inbox = <<>>
    /\ sent = NoToken
    /\ resp = NoResp
    /\ decoded = Record(<<>>, None)
    /\ out_path = NoPath
    /\ run = 1
    /\ posts = 0
    /\ diedAt = "-"
    /\ startFiles = {}
    /\ passed = {}
    /\ prompted = {}
    /\ outWrites = {}
    /\ saved = {}
    /\ pre = NoPre

pid_uuid == pids[idx + 1]

(* --------------------------- the while loop --------------------------- *)
\* while idx < len(pids) is false: the run ends
LoopEnd ==
    /\ pc = "loop"
    /\ ~(idx < Len(pids))
    /\ pc' = "finished"
    /\ UNCHANGED <<pids, persistent, idx, captcha_id, inbox, locals, run, posts,
                   diedAt, history>>

\* the pointer file exists: idx += 1; continue
PassOver ==
    /\ pc = "loop"
    /\ idx < Len(pids)
    /\ PointerExists(files, pid_uuid)
    /\ idx' = idx + 1
    /\ passed' = passed \cup {idx + 1}
    /\ UNCHANGED <<pids, persistent, pc, captcha_id, inbox, locals, run, posts,
                   diedAt, startFiles, prompted, outWrites, saved, pre>>

\* no pointer file: ensure_captcha_id() up to its input(), or through to the
\* command prompt when a token is held
Ensure ==
    /\ pc = "loop"
    /\ idx < Len(pids)
    /\ ~PointerExists(files, pid_uuid)
    /\ pc' = IF captcha_id # NoToken THEN "prompt" ELSE "ensure_wait"
    /\ prompted' = prompted \cup {idx + 1}
    /\ UNCHANGED <<pids, persistent, idx, captcha_id, inbox, locals, run, posts,
                   diedAt, startFiles, passed, outWrites, saved, pre>>

\* an ensure_captcha_id() that returns True whatever the slot holds
EnsureConfirm_alwaysTrue ==
    /\ pc = "ensure_wait"
    /\ pc' = "prompt"
    /\ UNCHANGED <<pids, persistent, idx, captcha_id, inbox, locals, run, posts,
                   diedAt, history>>

\* the operator confirms in ensure_captcha_id(): return bool(captcha_id);
\* False makes main() print "Aborting" and break
EnsureConfirm ==
    /\ pc = "ensure_wait"
    /\ pc' = IF captcha_id # NoToken THEN "prompt" ELSE "aborted"
    /\ UNCHANGED <<pids, persistent, idx, captcha_id, inbox, locals, run, posts,
                   diedAt, history>>

\* the POSTs a behaviour is followed for: a list of one identifier gets one
\* more, so that a third attempt at the same item is covered
PostCap == IF Len(pids) = 1 THEN MaxPosts + 1 ELSE MaxPosts

\* what the operator may type at the command prompt
Commands == {<<>>, <<"q">>, <<"s">>, <<"r">>, <<"Q", " ">>, <<"x">>}

make_headers == captcha_id

\* a command prompt that compares the input as typed, without lower()
Command_noLower(typed) ==
    LET cmd == Strip(typed) IN
    /\ pc = "prompt"
    /\ IF cmd = <<"q">> THEN
            /\ pc' = "quit"
            /\ UNCHANGED <<idx, captcha_id, sent, posts>>
       ELSE IF cmd = <<"s">> THEN
            /\ idx' = idx + 1
            /\ pc' = "loop"
            /\ UNCHANGED <<captcha_id, sent, posts>>
       ELSE IF cmd = <<"r">> THEN
            /\ captcha_id' = NoToken
            /\ pc' = "relearn_wait"
            /\ UNCHANGED <<idx, sent, posts>>
       ELSE
            /\ posts < PostCap
            /\ sent' = make_headers
            /\ posts' = posts + 1
            /\ pc' = "post"
            /\ UNCHANGED <<idx, captcha_id>>
    /\ UNCHANGED <<pids, persistent, inbox, resp, decoded, out_path, run, diedAt,
                   startFiles, passed, prompted, outWrites, saved, pre>>

\* cmd = input(...).strip().lower() and the branch it selects; any other
\* input issues the POST
Command(typed) ==
    LET cmd == Lower(Strip(typed)) IN
    /\ pc = "prompt"
    /\ IF cmd = <<"q">> THEN
            /\ pc' = "quit"
            /\ UNCHANGED <<idx, captcha_id, sent, posts>>
       ELSE IF cmd = <<"s">> THEN
            /\ idx' = idx + 1
            /\ pc' = "loop"
            /\ UNCHANGED <<captcha_id, sent, posts>>
       ELSE IF cmd = <<"r">> THEN
            /\ captcha_id' = NoToken
            /\ pc' = "relearn_wait"
            /\ UNCHANGED <<idx, sent, posts>>
       ELSE
            /\ posts < PostCap
            /\ sent' = make_headers
            /\ posts' = posts + 1
            /\ pc' = "post"
            /\ UNCHANGED <<idx, captcha_id>>
    /\ UNCHANGED <<pids, persistent, inbox, resp, decoded, out_path, run, diedAt,
                   startFiles, passed, prompted, outWrites, saved, pre>>

\* an 'r' branch that falls through to the next item
RelearnConfirm_advances ==
    /\ pc = "relearn_wait"
    /\ pc' = "loop"
    /\ idx' = idx + 1
    /\ UNCHANGED <<pids, persistent, captcha_id, inbox, locals, run, posts,
                   diedAt, history>>

\* the operator confirms after 'r': continue, without advancing
RelearnConfirm ==
    /\ pc = "relearn_wait"
    /\ pc' = "loop"
    /\ UNCHANGED <<pids, persistent, idx, captcha_id, inbox, locals, run, posts,
                   diedAt, history>>

(* ------------------------- fetch, decode, save ------------------------ *)
\* dict.get(key, default) on the parsed body
Get(body, key, default) == IF key \in body.keys THEN body[key] ELSE default

\* lines 172-180: the output file name for a decoded record
ResolveOutPath(fs, pid, dec) ==
    LET polymer_id == dec.polymer_id
        fname == IF Truthy(polymer_id) /\ polymer_id.t = "str"
                 THEN safe_filename(polymer_id.v) \o DotJson
                 ELSE safe_filename(pid) \o DotJson
        stem == IF Truthy(polymer_id) THEN polymer_id ELSE Str(Unknown)
    IN  IF ~Exists(fs, fname) THEN Return(fname)
        ELSE IF stem.t # "str" THEN Raise("AttributeError")
        ELSE Return(safe_filename(stem.v) \o Sep \o safe_filename(pid) \o DotJson)

\* lines 152-180: what the try block does with the answer to the POST, up to
\* the first write: "blocked" and "result_false" print and continue, "exc"
\* enters the except clause, "save" goes on to atomic_write_json
Handle(fs, pid, r) ==
    LET stop(k) == [kind |-> k, e |-> "-", decoded |-> Record(<<>>, None), out_path |-> NoPath]
        exc(e) == [kind |-> "exc", e |-> e, decoded |-> Record(<<>>, None), out_path |-> NoPath]
    IN  IF r.kind = "exc" THEN exc(r.e)
        ELSE IF looks_blocked(r.status, r.ct) THEN stop("blocked")
        ELSE IF ~r.body.isjson THEN exc("JSONDecodeError")
        ELSE IF ~Get(r.body, "result", FALSE) THEN stop("result_false")
        ELSE IF "json" \notin r.body.keys THEN exc("KeyError")
        ELSE LET d == decode_b64_json(r.body.payload) IN
             IF ~d.ok THEN exc(d.exc)
             ELSE LET o == ResolveOutPath(fs, pid, d.val) IN
                  IF ~o.ok THEN exc(o.exc)
                  ELSE [kind |-> "save", e |-> "-", decoded |-> d.val, out_path |-> o.val]

ClearLocals ==
    /\ sent' = NoToken
    /\ resp' = NoResp
    /\ decoded' = Record(<<>>, None)
    /\ out_path' = NoPath
    /\ pre' = NoPre

\* lines 191-196: the except clause; the loop continues with the same idx
Except(e) ==
    /\ errors' = Append(errors, [pid_uuid |-> pid_uuid, e |-> e])
    /\ pc' = "loop"
    /\ ClearLocals

\* await page.request.post(...) comes back: a response, or a network fault
Receive ==
    /\ pc = "post"
    /\ \/ resp' = [kind |-> "exc", e |-> "TransportError", status |-> 0, ct |-> <<>>,
                   body |-> Body(FALSE, {}, FALSE, B64Json(Record(<<>>, None)))]
       \/ \E r \in Responses(pid_uuid) :
            resp' = [kind |-> "resp", e |-> "-", status |-> r.status, ct |-> r.ct,
                     body |-> r.body]
    /\ pc' = "got"
    /\ UNCHANGED <<pids, persistent, idx, captcha_id, inbox, sent, decoded, out_path,
                   run, posts, diedAt, history>>

\* lines 153-180 on that answer
Classify ==
    LET h == Handle(files, pid_uuid, resp) IN
    /\ pc = "got"
    /\ IF h.kind = "exc" THEN
            /\ Except(h.e)
            /\ UNCHANGED <<files, index>>
       ELSE IF h.kind \in {"blocked", "result_false"} THEN
            /\ pc' = "loop"
            /\ ClearLocals
            /\ UNCHANGED persistent
       ELSE
            /\ decoded' = h.decoded
            /\ out_path' = h.out_path
            /\ pre' = [names |-> DOMAIN files, nindex |-> Len(index), idx |-> idx]
            /\ pc' = "out_tmp"
            /\ UNCHANGED <<persistent, sent, resp>>
    /\ UNCHANGED <<pids, idx, captcha_id, inbox, run, posts, diedAt, startFiles,
                   passed, prompted, outWrites, saved>>

\* atomic_write_json, first half: tmp.write_text(json.dumps(obj)); an I/O
\* error leaves a truncated temporary file and raises
WriteTmp(at, path, obj, next) ==
    /\ pc = at
    /\ \/ /\ files' = write_text(files, TmpOf(path), Text(obj))
          /\ pc' = next
          /\ UNCHANGED <<errors, locals, pre>>
       \/ /\ files' = write_text(files, TmpOf(path), Truncated(obj))
          /\ Except("OSError")
    /\ UNCHANGED <<pids, index, idx, captcha_id, inbox, run, posts, diedAt,
                   startFiles, passed, prompted, outWrites, saved>>

\* line 182, first half
WriteOutTmp == WriteTmp("out_tmp", out_path, decoded, "out_replace")

\* line 182, second half: tmp.replace(path)
ReplaceOut ==
    /\ pc = "out_replace"
    /\ files' = replace(files, TmpOf(out_path), out_path)
    /\ outWrites' = outWrites \cup {[pid |-> pid_uuid, name |-> out_path]}
    /\ pc' = "index"
    /\ UNCHANGED <<pids, errors, locals, pre, index, idx, captcha_id, inbox, run, posts, diedAt,
                   startFiles, passed, prompted, saved>>

\* the line append_index() writes; ts is the clock of the model
IndexEntry(pid, dec, filename, ts) ==
    [ts |-> ts, pid_uuid |-> pid, polymer_id |-> dec.polymer_id,
     polymer_uuid |-> dec.polymer_uuid, filename |-> filename]

\* line 183: append_index(pid_uuid, decoded, out_path.name)
AppendIndex ==
    /\ pc = "index"
    /\ \/ /\ index' = Append(index, IndexEntry(pid_uuid, decoded, out_path, posts))
          /\ pc' = "ptr_tmp"
          /\ UNCHANGED <<errors, locals, pre>>
       \/ /\ Except("OSError")
          /\ UNCHANGED index
    /\ UNCHANGED <<pids, files, idx, captcha_id, inbox, run, posts, diedAt,
                   startFiles, passed, prompted, outWrites, saved>>

\* line 186, first half
WritePtrTmp ==
    WriteTmp("ptr_tmp", PointerPath(pid_uuid), Pointer(pid_uuid, out_path), "ptr_replace")

\* line 186, second half, and lines 188-189: idx += 1
ReplacePtr ==
    /\ pc = "ptr_replace"
    /\ files' = replace(files, TmpOf(PointerPath(pid_uuid)), PointerPath(pid_uuid))
    /\ saved' = saved \cup {[pid |-> pid_uuid, rec |-> decoded, filename |-> out_path]}
    /\ idx' = idx + 1
    /\ pc' = "loop"
    /\ ClearLocals
    /\ UNCHANGED <<pids, errors, index, captcha_id, inbox, run, posts, diedAt,
                   startFiles, passed, prompted, outWrites>>

(* --------------------------- the token bridge ------------------------- *)
Ended == {"finished", "quit", "aborted", "dead"}

\* Playwright dispatches "request" events through the event loop.  The model
\* lets on_request run while main() waits for the POST and while it waits at
\* the console, and never forces it to run: a request the browser made may
\* still be undelivered when the operator confirms.
DispatchPoints == {"post", "ensure_wait", "prompt", "relearn_wait"}

\* the two prompts that ask the operator to click a polymer in the browser
ClickPrompts == {"ensure_wait", "relearn_wait"}

\* the operator does what the prompt asks (or something else) in the browser
\* and the page makes a request; the operator stops clicking once a token
\* is held ("click ONE polymer")
BrowserRequest ==
    /\ pc \in ClickPrompts
    /\ captcha_id = NoToken
    /\ Len(inbox) < MaxInbox
    /\ \E req \in BrowserRequests : inbox' = Append(inbox, req)
    /\ UNCHANGED <<pids, persistent, pc, idx, captcha_id, locals, run, posts,
                   diedAt, history>>

\* line 82: the request on_request looks for
Qualifies(req) ==
    /\ req.url = API_URL
    /\ req.method = "POST"
    /\ \E kv \in req.headers : kv[1] = "captchaid"

\* h["captchaid"]
HeaderOf(req) == (CHOOSE kv \in req.headers : kv[1] = "captchaid")[2]

\* an on_request that does not look at the method
on_request_anyMethod ==
    /\ pc \in DispatchPoints
    /\ inbox # <<>>
    /\ LET req == Head(inbox)
       IN  IF req.url = API_URL /\ \E kv \in req.headers : kv[1] = "captchaid"
           THEN captcha_id' = HeaderOf(req)
           ELSE UNCHANGED captcha_id
    /\ inbox' = Tail(inbox)
    /\ UNCHANGED <<pids, persistent, pc, idx, locals, run, posts, diedAt, history>>

\* lines 80-85
on_request ==
    /\ pc \in DispatchPoints
    /\ inbox # <<>>
    /\ LET req == Head(inbox)
       IN  IF Qualifies(req)
           THEN captcha_id' = HeaderOf(req)
           ELSE UNCHANGED captcha_id
    /\ inbox' = Tail(inbox)
    /\ UNCHANGED <<pids, persistent, pc, idx, locals, run, posts, diedAt, history>>

(* -------------------------- crash and restart ------------------------- *)
\* the process is killed where it stands; inside write_text the temporary
\* file may be left truncated.  Nothing of the process survives but OUTDIR.
Crash ==
    /\ pc \notin Ended
    /\ \/ UNCHANGED files
       \/ /\ pc = "out_tmp"
          /\ files' = write_text(files, TmpOf(out_path), Truncated(decoded))
       \/ /\ pc = "ptr_tmp"
          /\ files' = write_text(files, TmpOf(PointerPath(pid_uuid)),
                                 Truncated(Pointer(pid_uuid, out_path)))
    /\ diedAt' = pc
    /\ pc' = "dead"
    /\ idx' = 0
    /\ captcha_id' = NoToken
    /\ inbox' = <<>>
    /\ ClearLocals
    /\ UNCHANGED <<pids, index, errors, run, posts, startFiles, passed,
                   prompted, outWrites, saved>>

\* main(pids) is started again over the same list: line 78 and lines 119-121
Rerun ==
    /\ pc \in Ended
    /\ run < MaxRuns
    /\ run' = run + 1
    /\ errors' = <<>>
    /\ idx' = 0
    /\ captcha_id' = NoToken
    /\ inbox' = <<>>
    /\ pc' = "loop"
    /\ diedAt' = "-"
    /\ startFiles' = DOMAIN files
    /\ passed' = {}
    /\ prompted' = {}
    /\ UNCHANGED <<pids, files, index, locals, posts, outWrites, saved, pre>>

Next ==
    \/ LoopEnd
    \/ PassOver
    \/ Ensure
    \/ EnsureConfirm
    \/ \E typed \in Commands : Command(typed)
    \/ RelearnConfirm
    \/ Receive
    \/ Classify
    \/ WriteOutTmp
    \/ ReplaceOut
    \/ AppendIndex
    \/ WritePtrTmp
    \/ ReplacePtr
    \/ BrowserRequest
    \/ on_request
    \/ Crash
    \/ Rerun

Spec == Init /\ [][Next]_vars

TypeOK ==
    /\ idx \in 0..Len(pids)
    /\ captcha_id \in Tokens \cup {NoToken}
    /\ posts \in 0..PostCap
    /\ run \in 1..MaxRuns

(* ------------------------------- claims ------------------------------- *)
Positions == 1..Len(pids)
Min(S) == CHOOSE x \in S : \A y \in S : x <= y
FinalNames(fs) == {n \in DOMAIN fs : ~IsTmp(n)}
\* the output files that hold the record fetched for pid
OutputsOf(fs, pid) ==
    {n \in FinalNames(fs) : IsRecord(fs[n].obj) /\ fs[n].obj.polymer_uuid = Str(pid)}
\* a step of main() itself, not the process being killed or started again
MainStep == pc' # "dead" /\ run' = run

\* C1: whenever a POST is in flight for an identifier, its pointer file does
\* not exist, and did not exist when the run started: a run started with the
\* pointers of an earlier run issues no request for the identifiers they mark.
C1_NoPostForPointed ==
    pc = "post" =>
        /\ ~Exists(files, PointerPath(pid_uuid))
        /\ PointerPath(pid_uuid) \notin startFiles

\* C1 witness: in a second run an identifier saved before has been passed
\* over and a POST is in flight for another one.
C1_Witness ==
    /\ run = 2
    /\ pc = "post"
    /\ \E i \in passed : \E sv \in saved : sv.pid = pids[i]

\* C2: every identifier with a pointer file has, under the name the pointer
\* gives, a completely written output file holding the record fetched for it,
\* and no other output file holds its record.
C2_PointerMeansOneOutput ==
    \A i \in Positions :
        LET pp == PointerPath(pids[i]) IN
        Exists(files, pp) =>
            /\ files[pp].complete
            /\ IsPointer(files[pp].obj)
            /\ Exists(files, files[pp].obj.filename)
            /\ files[files[pp].obj.filename].complete
            /\ OutputsOf(files, pids[i]) = {files[pp].obj.filename}

\* C3: over all attempts, failures, crashes and restarts at most one output
\* file is ever written for an identifier.
C3_OneOutputWritePerId ==
    \A w1, w2 \in outWrites : w1.pid = w2.pid => w1.name = w2.name

\* C4: an identifier is passed over without ever being prompted for only
\* if its pointer file was present when the run started, none of those is
\* prompted for, and the first identifier prompted for is the first in input
\* order without a pointer.
C4_OnlyStartSubsetPassed ==
    /\ \A i \in passed :
          \/ PointerPath(pids[i]) \in startFiles
          \/ \E j \in prompted : pids[j] = pids[i]
    /\ \A i \in Positions : PointerPath(pids[i]) \in startFiles => i \notin prompted
    /\ prompted # {} =>
          Min(prompted) = Min({i \in Positions : PointerPath(pids[i]) \notin startFiles})

\* C5: no file under a final name (any name but a temporary one) ever holds
\* truncated content, whatever was written, failed or killed before.
C5_NoPartialFinalFile ==
    \A n \in FinalNames(files) : files[n].complete

\* C5 witness: the process was killed between the temporary write of an
\* output file and its rename; the temporary file is complete and the final
\* name is absent.
C5_Witness ==
    /\ pc = "dead"
    /\ diedAt = "out_replace"
    /\ \E n \in DOMAIN files :
          /\ IsTmp(n)
          /\ files[n].complete
          /\ ~Exists(files, SubSeq(n, 1, Len(n) - Len(DotTmp)))

\* C6: two distinct identifiers saved with the same polymer_id have distinctly
\* named output files, and each one's pointer names the file that holds its
\* own record.
C6_CollidingIdsKeepOwnFiles ==
    \A s1, s2 \in saved :
        (/\ s1.pid # s2.pid
         /\ s1.rec.polymer_id.t = "str"
         /\ s1.rec.polymer_id = s2.rec.polymer_id)
        => LET p1 == PointerPath(s1.pid)
               p2 == PointerPath(s2.pid)
           IN  /\ Exists(files, p1) /\ IsPointer(files[p1].obj)
               /\ Exists(files, p2) /\ IsPointer(files[p2].obj)
               /\ files[p1].obj.filename # files[p2].obj.filename
               /\ files[p1].obj.filename \in OutputsOf(files, s1.pid)
               /\ files[p2].obj.filename \in OutputsOf(files, s2.pid)

\* the three answers that lines 155-168 turn away: a status other than 200,
\* a content type without "json", a JSON body whose result flag is false or
\* missing
Rejected(r) ==
    /\ r.kind = "resp"
    /\ \/ r.status # 200
       \/ ~Contains(Lower(r.ct), <<"j","s","o","n">>)
       \/ r.body.isjson /\ ("result" \notin r.body.keys \/ ~r.body.result)

ExceptionStep ==
    /\ MainStep
    /\ pc \in {"got", "out_tmp", "index", "ptr_tmp"}
    /\ pc' = "loop"
    /\ ~(pc = "got" /\ Rejected(resp))

\* C8: an exception during the request, the decode or the persistence of an
\* item appends exactly one error-log line with the identifier, leaves the
\* item without a pointer file and the queue index unchanged, and the run goes
\* on at the top of the loop with the same identifier.
C8_ExceptionLogsOnceAndRetries ==
    [][ExceptionStep =>
            /\ Len(errors') = Len(errors) + 1
            /\ SubSeq(errors', 1, Len(errors)) = errors
            /\ errors'[Len(errors')].pid_uuid = pid_uuid
            /\ idx' = idx
            /\ ~Exists(files', PointerPath(pid_uuid))]_vars

\* C9: when a save of a record with a non-empty string polymer_id P completes
\* and no file P.json existed when it began, P.json holds the decoded record,
\* the pointer file names P.json, the index has exactly one more entry, for
\* this identifier, and the queue index has advanced by one.
C9_HealthySaveWritesAll ==
    [][(pc = "ptr_replace" /\ MainStep) =>
        LET P == decoded.polymer_id
            name == safe_filename(P.v) \o DotJson
        IN  (P.t = "str" /\ P.v # <<>> /\ name \notin pre.names) =>
                /\ Exists(files', name)
                /\ files'[name] = Text(decoded)
                /\ Exists(files', PointerPath(pid_uuid))
                /\ files'[PointerPath(pid_uuid)] = Text(Pointer(pid_uuid, name))
                /\ Len(index') = pre.nindex + 1
                /\ index'[Len(index')].pid_uuid = pid_uuid
                /\ index'[Len(index')].filename = name
                /\ idx' = pre.idx + 1]_vars

\* C10: a POST is only ever in flight with a token in its header; when the
\* operator confirms in ensure_captcha_id() and no token is held the run is
\* aborted, and an aborted run takes no further step.
C10_TokenOrHalt ==
    [][/\ pc' = "post" => sent' \in Tokens
       /\ (pc = "ensure_wait" /\ pc' \notin {"ensure_wait", "dead"} /\ captcha_id = NoToken)
              => pc' = "aborted"
       /\ pc = "aborted" => run' = run + 1]_vars

\* C10 witness: the run was aborted while identifiers without a pointer file
\* remained, after an earlier POST of the same run carried a token.
C10_Witness ==
    /\ pc = "aborted"
    /\ run = 1
    /\ posts >= 1
    /\ \E i \in Positions : i > idx /\ ~Exists(files, PointerPath(pids[i]))

\* the index lines written for pid
EntriesOf(ix, pid) == {k \in 1..Len(ix) : ix[k].pid_uuid = pid}

\* the file at pid's pointer path is a pointer
HasPointer(fs, pid) ==
    Exists(fs, PointerPath(pid)) /\ IsPointer(fs[PointerPath(pid)].obj)

\* C11: after every step the index holds exactly one entry for each
\* identifier that has a pointer file and none for an identifier without
\* one, and the entries it held before the step are still there, unchanged.
C11_IndexMatchesPointers ==
    [][/\ \A i \in Positions :
             Cardinality(EntriesOf(index', pids[i])) =
                 IF HasPointer(files', pids[i]) THEN 1 ELSE 0
       /\ Len(index') >= Len(index)
       /\ SubSeq(index', 1, Len(index)) = index]_vars

\* C12: an index entry for an identifier is appended only when that
\* identifier's pointer file already exists (output file, then pointer file,
\* then index entry).
C12_PointerBeforeIndex ==
    [][Len(index') > Len(index) =>
            Exists(files, PointerPath(index'[Len(index')].pid_uuid))]_vars

\* C13: a pointer file exists for an identifier only if a save of that same
\* identifier completed, and only such identifiers are passed over by the
\* pointer check.
C13_PointerOnlyForSaved ==
    /\ \A i \in Positions :
          Exists(files, PointerPath(pids[i])) => \E sv \in saved : sv.pid = pids[i]
    /\ \A i \in passed : \E sv \in saved : sv.pid = pids[i]

\* C14: at the command prompt 'q' ends the run, 's' moves to the next item and
\* 'r' clears the token and waits for the operator; none of the three issues
\* a request or writes a file, an index entry or an error-log line, 'q' and
\* 'r' leave the queue index alone, and a skipped item still has no pointer.
C14_CommandEffects ==
    [][/\ \A typed \in Commands :
             Command(typed) =>
                LET cmd == Lower(Strip(typed)) IN
                /\ cmd = <<"q">> =>
                      /\ pc' \in Ended
                      /\ UNCHANGED <<files, index, errors, idx, posts>>
                /\ cmd = <<"s">> =>
                      /\ idx' = idx + 1
                      /\ pc' = "loop"
                      /\ UNCHANGED <<files, index, errors, posts>>
                      /\ ~Exists(files', PointerPath(pid_uuid))
                /\ cmd = <<"r">> =>
                      /\ captcha_id' = NoToken
                      /\ pc' = "relearn_wait"
                      /\ UNCHANGED <<files, index, errors, idx, posts>>
       /\ (pc = "relearn_wait" /\ MainStep) =>
             /\ pc' \in {"relearn_wait", "loop"}
             /\ UNCHANGED <<files, index, errors, idx, posts>>
       /\ (pc = "quit" /\ pc' # pc) => run' = run + 1]_vars

\* C14 witness: the first item of a list of two was skipped: the run stands at
\* the second item with no request made and nothing written.
C14_Witness ==
    /\ run = 1
    /\ Len(pids) = 2
    /\ pc = "loop"
    /\ idx = 1
    /\ prompted = {1}
    /\ passed = {}
    /\ posts = 0
    /\ DOMAIN files = {}
    /\ index = <<>>
    /\ errors = <<>>

\* C15: while an identifier without a pointer file is current, the run ends
\* only from the command prompt: the operator has had the choice of quit,
\* skip and refresh before the run can halt for that step.
C15_HaltOnlyFromPrompt ==
    [][(MainStep /\ idx < Len(pids) /\ pc \notin Ended /\ pc' \in Ended)
            => pc = "prompt"]_vars

\* C16: when the operator confirms at one of the two click prompts, the token
\* slot holds the captchaId of every qualifying request the browser has made
\* during the wait.
C16_TokenSeenAtRecheck ==
    [][(MainStep /\ pc \in ClickPrompts /\ pc' \notin ClickPrompts) =>
            \A k \in 1..Len(inbox) :
                Qualifies(inbox[k]) => captcha_id = HeaderOf(inbox[k])]_vars

\* C17: within a run the token slot changes only when on_request is handed a
\* POST to the API URL with a captchaId header (to that header's value) and
\* when the operator types 'r' (to None); handling an answer, saving and
\* skipping leave it alone, and a POST carries the token that is held.
C17_TokenChangesOnlyTwoWays ==
    [][MainStep =>
        /\ captcha_id' # captcha_id =>
              \/ /\ pc \in DispatchPoints
                 /\ pc' = pc
                 /\ inbox # <<>>
                 /\ Qualifies(Head(inbox))
                 /\ captcha_id' = HeaderOf(Head(inbox))
              \/ /\ pc = "prompt"
                 /\ pc' = "relearn_wait"
                 /\ captcha_id' = NoToken
        /\ pc \in {"got", "out_tmp", "out_replace", "index", "ptr_tmp", "ptr_replace"}
              => captcha_id' = captcha_id
        /\ (pc = "prompt" /\ pc' = "loop") => captcha_id' = captcha_id
        /\ (pc = "prompt" /\ pc' = "post") => sent' = captcha_id]_vars

\* C17 witness: the first POST of the run was answered by a rejected response
\* (nothing written, nothing logged) and a second POST for the same item is
\* in flight with the token that is still held.
C17_Witness ==
    /\ run = 1
    /\ posts = 2
    /\ pc = "post"
    /\ idx = 0
    /\ sent = captcha_id
    /\ DOMAIN files = {}
    /\ index = <<>>
    /\ errors = <<>>

\* C18: within a run the queue index never decreases and grows by one at a
\* time, only at a pointer-present check, a skip or a completed save; when a
\* POST is issued every earlier position has been passed over by the pointer
\* check or prompted for and then left (by a skip or a save).
C18_InOrder ==
    [][MainStep =>
        /\ idx' \in {idx, idx + 1}
        /\ idx' = idx + 1 =>
              \/ pc = "loop" /\ Exists(files, PointerPath(pid_uuid))
              \/ pc = "prompt" /\ pc' = "loop"
              \/ pc = "ptr_replace" /\ Exists(files', PointerPath(pid_uuid))
        /\ pc' = "post" =>
              /\ idx' + 1 \in prompted'
              /\ \A i \in 1..idx' : i \in passed' \cup prompted']_vars

\* C18 witness: the first item was saved in this run and a POST is in flight
\* for the second.
C18_Witness ==
    /\ run = 1
    /\ pc = "post"
    /\ idx = 1
    /\ prompted = {1, 2}
    /\ \E sv \in saved : sv.pid = pids[1]

\* C19: the output path a save writes does not exist immediately before the
\* write (the rename of line 40 puts the record on a fresh name).
C19_SaveNeverReplaces ==
    [][(MainStep /\ pc = "out_replace") => ~Exists(files, out_path)]_vars

\* C20: the loop does not move past an identifier on its own: an identifier
\* that failed with an exception in this run is passed over by the pointer
\* check only once a save of it has completed.
C20_NeverMovesPastFailing ==
    [][(/\ MainStep
        /\ pc = "loop"
        /\ idx' = idx + 1
        /\ \E k \in 1..Len(errors) : errors[k].pid_uuid = pid_uuid)
            => \E sv \in saved : sv.pid = pid_uuid]_vars

====
